---- MODULE Spec2Model ----
(***************************************************************************)
(* A model of the gltransition filter (vf_gltransition.c): the frame       *)
(* arrival handler blend_frame with apply_transition, the setup and        *)
(* teardown handlers config_output and uninit with the GPU objects they    *)
(* acquire and release, the progress computation, and the uniform default  *)
(* extractor init_uniforms with its strtok_r/sscanf scanning.              *)
(***************************************************************************)
EXTENDS Integers, Sequences, FiniteSets, TLC

(***************************************************************************)
(* Bounds of the model.                                                    *)
(***************************************************************************)
\* int64_t timestamps are modelled as two's complement words of PtsBits bits
PtsBits == 6
\* the framesync clock fs->pts runs over 0..MaxPts
MaxPts == 2
\* the largest timebase denominator
MaxDen == 2
\* a shader source holds at most MaxLines lines
MaxLines == 2

VARIABLES
  \* ---- the build and the instances (GLTransitionContext, one per filter)
  useEGL,        \* GL_TRANSITION_USING_EGL is defined in this build
  phase,         \* each instance's position in the filter's life cycle
  w, h,          \* the output size options
  duration,      \* c->duration, seconds
  offset,        \* c->offset, seconds
  link_format,   \* <<fromLink->format, toLink->format>>
  first_pts,     \* c->first_pts
  fs_pts,        \* c->fs.pts
  fs_den,        \* c->fs.time_base.den
  from, to,      \* the texture names c->from, c->to
  posBuf,        \* c->posBuf
  program,       \* c->program
  glctx,         \* c->window (GLFW) or c->eglDpy (EGL): 0 or a handle
  current,       \* the rendering context current on the calling thread
  acquired,      \* the resources config_output has stored in the instance
  released,      \* the release calls uninit has issued, in order
  cfg_ret,       \* what config_output returned
  seen_event,    \* blend_frame has run for the instance
  u_progress,    \* the value of the progress uniform of the instance's program
  ev,            \* the last frame-arrival event and what blend_frame did
  glcalls,       \* the GPU calls of the last handler, with the current context
  \* ---- the progress computation alone
  p_in, p_out,
  \* ---- the uniform default extractor alone
  f_shader_source,  \* c->f_shader_source, the text init_uniforms scans
  decls,            \* the lines the text was written from
  resize,           \* c->resize
  dims,             \* the sizes of the output link and the two input links
  active,           \* the names glGetUniformLocation resolves in c->program
  uniforms,         \* the value each uniform of the program was last set to
  ulog,             \* what init_uniforms logged at AV_LOG_ERROR
  upc               \* "linked" before init_uniforms has run, "done" after

vars == <<useEGL, phase, w, h, duration, offset, link_format, first_pts, fs_pts, fs_den, from, to,
          posBuf, program, glctx, current, acquired, released, cfg_ret,
          seen_event, u_progress, ev, glcalls, p_in, p_out,
          f_shader_source, decls, resize, dims, active, uniforms, ulog, upc>>

filterVars == <<useEGL, phase, w, h, duration, offset, link_format, first_pts, fs_pts, fs_den, from,
                to, posBuf, program, glctx, current, acquired, released, cfg_ret,
                seen_event, u_progress, ev, glcalls>>

progressVars == <<p_in, p_out>>

uniformVars == <<f_shader_source, decls, resize, dims, active, uniforms, ulog,
                 upc>>

(***************************************************************************)
(* Timestamps: int64_t, modelled at PtsBits bits.                          *)
(***************************************************************************)
IntMin == -(2 ^ (PtsBits - 1))

IntMax == (2 ^ (PtsBits - 1)) - 1

\* AV_NOPTS_VALUE is INT64_MIN, the value init() stores in first_pts
AV_NOPTS_VALUE == IntMin

\* the two's complement word of an integer
Wrap(x) == ((x - IntMin) % (2 ^ PtsBits)) + IntMin

\* fs->pts - c->first_pts: the difference when it is representable; signed
\* overflow is undefined, and a build gives the wrapped word or anything else
SubPts(a, b) ==
  IF a - b >= IntMin /\ a - b <= IntMax
    THEN {a - b}
    ELSE {Wrap(a - b), IntMin, -1, 0, 1, IntMax}

(***************************************************************************)
(* float and double values: a finite value is an exact fraction n/d, and   *)
(* the IEEE values +inf, -inf and NaN are kept apart.                      *)
(***************************************************************************)
RECURSIVE Gcd(_, _)
Gcd(a, b) == IF b = 0 THEN a ELSE Gcd(b, a % b)

Abs(x) == IF x < 0 THEN -x ELSE x

Fin(n, d) ==
  LET g == Gcd(Abs(n), Abs(d))
      s == IF d < 0 THEN -1 ELSE 1
  IN [k |-> "fin", n |-> (s * n) \div g, d |-> (s * d) \div g]

PInf == [k |-> "pinf", n |-> 1, d |-> 0]

NInf == [k |-> "ninf", n |-> -1, d |-> 0]

NaN == [k |-> "nan", n |-> 0, d |-> 0]

Zero == Fin(0, 1)

One == Fin(1, 1)

\* a > b as C evaluates it: false as soon as one side is NaN
FGt(a, b) ==
  CASE a.k = "nan" \/ b.k = "nan" -> FALSE
    [] a.k = "pinf" -> b.k # "pinf"
    [] a.k = "ninf" -> FALSE
    [] b.k = "pinf" -> FALSE
    [] b.k = "ninf" -> TRUE
    [] OTHER -> a.n * b.d > b.n * a.d

\* a - b
FSub(a, b) ==
  CASE a.k = "nan" \/ b.k = "nan" -> NaN
    [] a.k = "fin" /\ b.k = "fin" -> Fin(a.n * b.d - b.n * a.d, a.d * b.d)
    [] a.k = "fin" -> IF b.k = "pinf" THEN NInf ELSE PInf
    [] b.k = "fin" -> a
    [] a.k = b.k -> NaN
    [] OTHER -> a

\* a / b with the IEEE results of dividing by zero: x/0 is an infinity of the
\* sign of x and 0/0 is NaN (b is never negative zero here: the options'
\* lower bound is 0)
FDiv(a, b) ==
  CASE a.k = "nan" \/ b.k = "nan" -> NaN
    [] a.k = "fin" /\ b.k = "fin" ->
         IF b.n = 0
           THEN (IF a.n = 0 THEN NaN ELSE IF a.n > 0 THEN PInf ELSE NInf)
           ELSE Fin(a.n * b.d, a.d * b.n)
    [] a.k = "fin" -> Zero
    [] b.k = "fin" ->
         IF (a.k = "pinf") = (b.n >= 0) THEN PInf ELSE NInf
    [] OTHER -> NaN

\* a mutant of FFMIN: the comparison the other way round, which lets NaN through
FFMIN_lt(a, b) == IF FGt(b, a) THEN a ELSE b

\* #define FFMIN(a,b) ((a) > (b) ? (b) : (a))
FFMIN(a, b) == IF FGt(a, b) THEN b ELSE a

\* #define FFMAX(a,b) ((a) > (b) ? (a) : (b))
FFMAX(a, b) == IF FGt(a, b) THEN a ELSE b

\* ts = ((fs->pts - c->first_pts) / (float)fs->time_base.den) - c->offset
\* for one outcome diff of the integer subtraction
Ts(diff, den, off) == FSub(FDiv(Fin(diff, 1), Fin(den, 1)), off)

\* a mutant of Progress: the offset is added instead of subtracted
Progress_plus(diff, den, off, dur) ==
  FFMAX(Zero, FFMIN(One, FDiv(FSub(FDiv(Fin(diff, 1), Fin(den, 1)),
                                   FSub(Zero, off)), dur)))

\* progress = FFMAX(0.0f, FFMIN(1.0f, ts / c->duration))
Progress(diff, den, off, dur) ==
  FFMAX(Zero, FFMIN(One, FDiv(Ts(diff, den, off), dur)))

(***************************************************************************)
(* The progress computation on its own: Init draws the operands, the one   *)
(* action applies lines 438-441 of apply_transition to them.               *)
(***************************************************************************)
\* the option values tried for duration and offset (both >= 0, lines 138-139)
Seconds == {Fin(0, 1), Fin(1, 2), Fin(1, 1), Fin(2, 1), Fin(3, 1)}

PtsValues == 0 .. MaxPts + 1

Dens == 1 .. MaxDen

NoProgress == [k |-> "none", n |-> 0, d |-> 0]

ProgressInit ==
  /\ p_in \in [pts : PtsValues, first_pts : PtsValues \cup {AV_NOPTS_VALUE},
               den : Dens, offset : Seconds, duration : Seconds, diff : {0}]
  /\ p_out = NoProgress

ProgressStep ==
  /\ p_out = NoProgress
  /\ \E diff \in SubPts(p_in.pts, p_in.first_pts) :
       /\ p_in' = [p_in EXCEPT !.diff = diff]
       /\ p_out' = Progress(diff, p_in.den, p_in.offset, p_in.duration)

(***************************************************************************)
(* The filter: instances, frames and GPU calls.                            *)
(***************************************************************************)
\* the filter instances of the process; every instance creates its own context
Instances == {"A", "B"}

NoInstance == "none"

\* the pixel formats a link can carry
PixFmts == {"rgb24", "yuv420p"}

\* the option values tried for w and h (0 is the option's default, line 141)
Sizes == {0, 2}

\* a frame: the buffer it lives in, its pts and its pixels
Pix(src, f, t, p) == [src |-> src, f |-> f, t |-> t, p |-> p]

Frame(buf, pts, data) == [buf |-> buf, pts |-> pts, data |-> data]

NoFrame == Frame("none", AV_NOPTS_VALUE, Pix("none", "-", "-", NoProgress))

FromFrame(pts) == Frame("from", pts, Pix("from", "red", "-", NoProgress))

ToFrame(pts) == Frame("to", pts, Pix("to", "-", "blue", NoProgress))

\* one GPU call: the function, the instance that issues it, and the context
\* that is current when it runs
Call(fn, i, cur) == [fn |-> fn, inst |-> i, cur |-> cur]

Calls(fns, i, cur) == [n \in 1 .. Len(fns) |-> Call(fns[n], i, cur)]

NoEvent ==
  [inst |-> NoInstance, ret |-> "none", from |-> NoFrame, to |-> NoFrame,
   allocs |-> 0, emitted |-> <<>>, fromFate |-> "none", result |-> "none",
   calls |-> <<>>, progress |-> NoProgress]

\* the option defaults of duration and offset (lines 138-139)
DefaultDuration == Fin(1, 1)

DefaultOffset == Fin(0, 1)

\* the values of the options duration and offset tried with the filter
OptDurations == {Zero, DefaultDuration}

OptOffsets == {DefaultOffset, One}

FilterInit ==
  /\ useEGL \in BOOLEAN
  /\ phase = [i \in Instances |-> "new"]
  /\ w = [i \in Instances |-> 0]
  /\ h = [i \in Instances |-> 0]
  /\ duration = [i \in Instances |-> DefaultDuration]
  /\ offset = [i \in Instances |-> DefaultOffset]
  /\ link_format = [i \in Instances |-> <<"rgb24", "rgb24">>]
  /\ first_pts = [i \in Instances |-> 0]
  /\ fs_pts = [i \in Instances |-> AV_NOPTS_VALUE]
  /\ fs_den = [i \in Instances |-> 1]
  /\ from = [i \in Instances |-> 0]
  /\ to = [i \in Instances |-> 0]
  /\ posBuf = [i \in Instances |-> 0]
  /\ program = [i \in Instances |-> 0]
  /\ glctx = [i \in Instances |-> 0]
  /\ current = NoInstance
  /\ acquired = [i \in Instances |-> <<>>]
  /\ released = [i \in Instances |-> <<>>]
  /\ cfg_ret = [i \in Instances |-> "none"]
  /\ seen_event = [i \in Instances |-> FALSE]
  /\ u_progress = [i \in Instances |-> NoProgress]
  /\ ev = NoEvent
  /\ glcalls = <<>>

(***************************************************************************)
(* init: the options are set, the event handler is installed and           *)
(* first_pts becomes AV_NOPTS_VALUE.                                       *)
(***************************************************************************)
init(i, wi, hi, dur, off) ==
  /\ phase[i] = "new"
  /\ w' = [w EXCEPT ![i] = wi]
  /\ h' = [h EXCEPT ![i] = hi]
  /\ duration' = [duration EXCEPT ![i] = dur]
  /\ offset' = [offset EXCEPT ![i] = off]
  /\ first_pts' = [first_pts EXCEPT ![i] = AV_NOPTS_VALUE]
  /\ phase' = [phase EXCEPT ![i] = "inited"]
  /\ glcalls' = <<>>
  /\ UNCHANGED <<useEGL, link_format, fs_pts, fs_den, from, to, posBuf, program,
                 glctx, current, acquired, released, cfg_ret, seen_event,
                 u_progress, ev>>

(***************************************************************************)
(* config_output with build_program, create_vbo, init_uniforms, create_tex *)
(***************************************************************************)
\* a mutant of SetupRejected: only a size that is zero in both axes is refused
SetupRejected_both(ff, tf, wi, hi) == ff # tf \/ (wi <= 0 /\ hi <= 0)

\* the two checks that open config_output
SetupRejected(ff, tf, wi, hi) == ff # tf \/ wi <= 0 \/ hi <= 0

\* the places past those checks where config_output can return an error
\* ("none": it returns what ff_framesync_configure returns, 0)
FailPoints(egl) ==
  (IF egl THEN {} ELSE {"glfwInit", "window"})
    \cup {"v_shader", "source", "enomem", "f_shader", "link", "fs_init",
          "fs_configure", "none"}

BuildShaderCalls ==
  <<"glCreateShader", "glIsShader", "glShaderSource", "glCompileShader",
    "glGetShaderiv">>

ProgramCalls ==
  <<"glCreateProgram", "glAttachShader", "glAttachShader", "glLinkProgram",
    "glGetProgramiv">>

\* the GPU calls of build_program when it ends at `at`
BuildProgramCalls(at) ==
  CASE at = "v_shader" -> BuildShaderCalls \o <<"glGetShaderInfoLog">>
    [] at \in {"source", "enomem"} -> BuildShaderCalls
    [] at = "f_shader" ->
         BuildShaderCalls \o BuildShaderCalls \o <<"glGetShaderInfoLog">>
    [] at = "link" ->
         BuildShaderCalls \o BuildShaderCalls \o ProgramCalls
           \o <<"glGetProgramInfoLog">>
    [] OTHER -> BuildShaderCalls \o BuildShaderCalls \o ProgramCalls

\* what build_program returns when it ends at `at`
BuildProgramRet(at) ==
  CASE at \in {"v_shader", "source", "f_shader", "link"} -> "-1"
    [] at = "enomem" -> "ENOMEM"
    [] OTHER -> "0"

CreateVboCalls ==
  <<"glGenBuffers", "glBindBuffer", "glBufferData", "glGetAttribLocation",
    "glEnableVertexAttribArray", "glVertexAttribPointer">>

\* the calls with which init_uniforms ends (lines 396-407)
InitUniformsCalls ==
  <<"glUniform1i", "glUniform1i", "glUniform1f", "glUniform1f",
    "glUniformMatrix3fv", "glUniformMatrix3fv">>

CreateTexCalls ==
  <<"glGenTextures", "glActiveTexture", "glBindTexture", "glTexParameteri",
    "glTexParameteri", "glTexParameteri", "glTexParameteri", "glTexImage2D">>

\* the GPU calls of config_output when it ends at `at`
SetupCalls(at) ==
  IF at \in {"glfwInit", "window"}
    THEN <<>>
    ELSE <<"glViewport">> \o BuildProgramCalls(at)
           \o (IF BuildProgramRet(at) = "0"
                 THEN <<"glUseProgram">> \o CreateVboCalls \o InitUniformsCalls
                        \o CreateTexCalls \o CreateTexCalls
                 ELSE <<>>)

\* the resources config_output has stored in the instance when it ends at
\* `at`, in the order it acquires them
SetupAcquires(at) ==
  CASE at \in {"glfwInit", "window"} -> <<>>
    [] at \in {"v_shader", "source", "enomem", "f_shader"} -> <<"ctx">>
    [] at = "link" -> <<"ctx", "program">>
    [] OTHER -> <<"ctx", "program", "posBuf", "from", "to">>

SetupRet(at) ==
  CASE at \in {"glfwInit", "window"} -> "-1"
    [] at \in {"fs_init", "fs_configure"} -> "fs_error"
    [] OTHER -> BuildProgramRet(at)

Has(seq, x) == \E n \in 1 .. Len(seq) : seq[n] = x

\* ff, tf: the formats of the two input links; at: where the handler ends
\* unless its opening checks end it; den: the timebase framesync settles on
config_output(i, ff, tf, at, den) ==
  /\ phase[i] = "inited"
  /\ at \in FailPoints(useEGL)
  /\ link_format' = [link_format EXCEPT ![i] = <<ff, tf>>]
  /\   IF SetupRejected(ff, tf, w[i], h[i])
            THEN /\ cfg_ret' = [cfg_ret EXCEPT ![i] = "EINVAL"]
                 /\ phase' = [phase EXCEPT ![i] = "failed"]
                 /\ glcalls' = <<>>
                 /\ UNCHANGED <<fs_den, from, to, posBuf, program, glctx,
                                current, acquired, u_progress>>
            ELSE   LET got == SetupAcquires(at) IN
                   /\ cfg_ret' = [cfg_ret EXCEPT ![i] = SetupRet(at)]
                   /\ phase' = [phase EXCEPT ![i] =
                                  IF SetupRet(at) = "0" THEN "configured"
                                                        ELSE "failed"]
                   /\ acquired' = [acquired EXCEPT ![i] = got]
                   \* eglMakeCurrent / glfwMakeContextCurrent
                   /\ current' = IF Has(got, "ctx") THEN i ELSE current
                   /\ glctx' = [glctx EXCEPT ![i] =
                                  IF Has(got, "ctx") THEN 1 ELSE 0]
                   /\ program' = [program EXCEPT ![i] =
                                    IF Has(got, "program") THEN 3 ELSE 0]
                   /\ posBuf' = [posBuf EXCEPT ![i] =
                                   IF Has(got, "posBuf") THEN 1 ELSE 0]
                   /\ from' = [from EXCEPT ![i] =
                                 IF Has(got, "from") THEN 1 ELSE 0]
                   /\ to' = [to EXCEPT ![i] = IF Has(got, "to") THEN 2 ELSE 0]
                   /\ glcalls' = Calls(SetupCalls(at), i, current')
                   \* init_uniforms: glUniform1f(c->progress, 0.0f)
                   /\ u_progress' = [u_progress EXCEPT ![i] =
                                       IF Has(got, "posBuf") THEN Zero ELSE @]
                   /\ fs_den' = [fs_den EXCEPT ![i] =
                                   IF SetupRet(at) = "0" THEN den ELSE @]
  /\ UNCHANGED <<useEGL, w, h, duration, offset, first_pts, fs_pts, released,
                 seen_event, ev>>

(***************************************************************************)
(* blend_frame and apply_transition                                        *)
(***************************************************************************)
\* a mutant of NextFirstPts: the test that first_pts is still unset is gone
NextFirstPts_overwrite(first, fromFrame) ==
  IF fromFrame # NoFrame /\ fromFrame.pts # AV_NOPTS_VALUE
    THEN fromFrame.pts
    ELSE first

\* lines 484-486: first_pts after the event
NextFirstPts(first, fromFrame) ==
  IF first = AV_NOPTS_VALUE /\ fromFrame # NoFrame
       /\ fromFrame.pts # AV_NOPTS_VALUE
    THEN fromFrame.pts
    ELSE first

\* a mutant of ToAbsent: the to stream is never taken to be exhausted
ToAbsent_never(toFrame) == FALSE

\* line 488: !toFrame
ToAbsent(toFrame) == toFrame = NoFrame

UploadCalls ==
  <<"glActiveTexture", "glBindTexture", "glPixelStorei", "glPixelStorei",
    "glTexImage2D">>

\* the GPU calls of one blend, lines 436-458
BlendCalls ==
  <<"glUseProgram", "glUniform1f">> \o UploadCalls \o UploadCalls
    \o <<"glDrawArrays", "glPixelStorei", "glPixelStorei", "glReadPixels">>

\* apply_transition: the output frame (NoFrame for NULL), what became of
\* fromFrame, the GPU calls and the value written to the progress uniform.
\* allocOk is whether ff_get_video_buffer returns a frame; diff is the value
\* of fs->pts - c->first_pts.
apply_transition(i, fromFrame, toFrame, allocOk, diff, den, off, dur) ==
  IF ~allocOk
    THEN [out |-> NoFrame, fromFate |-> "leaked", calls |-> <<>>,
          progress |-> NoProgress, madeCurrent |-> FALSE]
    ELSE LET p == Progress(diff, den, off, dur) IN
         [out |-> Frame("out", fromFrame.pts,
                        Pix("blend", fromFrame.data.f, toFrame.data.t, p)),
          fromFate |-> "freed",
          calls |-> Calls(BlendCalls, i, i),
          progress |-> p,
          madeCurrent |-> TRUE]

\* a mutant of Emitted: a blend sends the from frame downstream as well
Emitted_both(fromFrame, toFrame, outFrame) ==
  IF ToAbsent(toFrame) THEN <<fromFrame>>
  ELSE IF outFrame = NoFrame THEN <<>>
  ELSE <<outFrame, fromFrame>>

\* the frames blend_frame hands to ff_filter_frame, lines 488-497
Emitted(fromFrame, toFrame, outFrame) ==
  IF ToAbsent(toFrame) THEN <<fromFrame>>
  ELSE IF outFrame = NoFrame THEN <<>>
  ELSE <<outFrame>>

\* blend_frame past a successful ff_framesync_dualinput_get
BlendFrame(i, fromFrame, toFrame, allocOk, diff, den, off, dur) ==
  IF ToAbsent(toFrame)
    THEN [inst |-> i, ret |-> "ok", from |-> fromFrame, to |-> toFrame,
          allocs |-> 0, emitted |-> Emitted(fromFrame, toFrame, NoFrame),
          fromFate |-> "forwarded", result |-> "0", calls |-> <<>>,
          progress |-> NoProgress]
    ELSE LET r == apply_transition(i, fromFrame, toFrame, allocOk, diff, den,
                                   off, dur) IN
         [inst |-> i, ret |-> "ok", from |-> fromFrame, to |-> toFrame,
          allocs |-> 1, emitted |-> Emitted(fromFrame, toFrame, r.out),
          fromFate |-> r.fromFate,
          result |-> IF r.out = NoFrame THEN "ENOMEM" ELSE "0",
          calls |-> r.calls, progress |-> r.progress]

\* pts: the event's fs->pts; ret: what ff_framesync_dualinput_get returns;
\* fpts: the pts of the from frame; toPresent: a to frame came with it;
\* allocOk: ff_get_video_buffer returns a frame
blend_frame(i, pts, ret, fpts, toPresent, allocOk) ==
  /\ phase[i] = "configured"
  /\ pts > fs_pts[i]
  /\ fs_pts' = [fs_pts EXCEPT ![i] = pts]
  /\ seen_event' = [seen_event EXCEPT ![i] = TRUE]
  /\   IF ret = "err"
            THEN \* ff_framesync_dualinput_get failed: lines 480-482
                 /\ ev' = [NoEvent EXCEPT !.inst = i, !.ret = "err",
                                          !.result = "err"]
                 /\ glcalls' = <<>>
                 /\ UNCHANGED <<first_pts, current, u_progress>>
            ELSE LET fromFrame == FromFrame(fpts)
                     toFrame == IF toPresent THEN ToFrame(pts) ELSE NoFrame
                     fp == NextFirstPts(first_pts[i], fromFrame)
                 IN /\ first_pts' = [first_pts EXCEPT ![i] = fp]
                    /\ \E diff \in SubPts(pts, fp) :
                         LET e == BlendFrame(i, fromFrame, toFrame, allocOk,
                                             diff, fs_den[i], offset[i],
                                             duration[i])
                         IN /\ ev' = e
                            /\ glcalls' = e.calls
                            /\ current' = IF Len(e.calls) > 0 THEN i ELSE current
                            /\ u_progress' =
                                 [u_progress EXCEPT ![i] =
                                    IF e.progress = NoProgress THEN @
                                                               ELSE e.progress]
  /\ UNCHANGED <<useEGL, phase, w, h, duration, offset, link_format, fs_den,
                 from, to, posBuf,
                 program, glctx, acquired, released, cfg_ret>>

(***************************************************************************)
(* uninit                                                                  *)
(***************************************************************************)
Guarded(handle, name) == IF handle # 0 THEN <<name>> ELSE <<>>

\* a mutant of UninitReleases: the releases are not guarded
UninitReleases_unguarded(f, t, pb, pr, cx) ==
  <<"from", "to", "posBuf", "program", "ctx">>

\* lines 513-530: the releases uninit issues for the handles it finds set
UninitReleases(f, t, pb, pr, cx) ==
  Guarded(f, "from") \o Guarded(t, "to") \o Guarded(pb, "posBuf")
    \o Guarded(pr, "program") \o Guarded(cx, "ctx")

\* the GPU call that releases a resource ("" for the context, which is
\* released by eglTerminate / glfwDestroyWindow, not by a GPU call)
ReleaseCall(name) ==
  CASE name \in {"from", "to"} -> "glDeleteTextures"
    [] name = "posBuf" -> "glDeleteBuffers"
    [] name = "program" -> "glDeleteProgram"
    [] OTHER -> ""

uninit(i) ==
  /\ phase[i] \in {"inited", "configured", "failed"}
  /\ LET rel == UninitReleases(from[i], to[i], posBuf[i], program[i], glctx[i])
         gpu == SelectSeq([n \in 1 .. Len(rel) |-> ReleaseCall(rel[n])],
                          LAMBDA fn : fn # "")
     IN /\ released' = [released EXCEPT ![i] = rel]
        /\ glcalls' = Calls(gpu, i, current)
        \* glfwDestroyWindow detaches a current context before destroying
        \* it; after eglTerminate the context stays current
        /\ current' = IF Has(rel, "ctx") /\ ~useEGL /\ current = i
                        THEN NoInstance
                        ELSE current
  /\ phase' = [phase EXCEPT ![i] = "closed"]
  /\ UNCHANGED <<useEGL, w, h, duration, offset, link_format, first_pts,
                 fs_pts, fs_den, from, to,
                 posBuf, program, glctx, acquired, cfg_ret, seen_event,
                 u_progress, ev>>

(***************************************************************************)
(* get_matrix                                                              *)
(***************************************************************************)
FAdd(a, b) ==
  IF a.k = "fin" /\ b.k = "fin" THEN Fin(a.n * b.d + b.n * a.d, a.d * b.d)
                                ELSE NaN

FMul(a, b) ==
  IF a.k = "fin" /\ b.k = "fin" THEN Fin(a.n * b.n, a.d * b.d) ELSE NaN

\* fmax and fmin of two values that are not NaN
fmax(a, b) == IF FGt(a, b) THEN a ELSE b

fmin(a, b) == IF FGt(a, b) THEN b ELSE a

\* enum ResizeType
ResizeTypes == {"CONTAIN", "COVER", "STRETCH"}

Half == Fin(1, 2)

\* a mutant of ScaleX: the scale of CONTAIN whatever the method
ScaleX_contain(method, ratio, xratio) == fmax(FDiv(ratio, xratio), One)

\* the scale factors get_matrix chooses
ScaleX(method, ratio, xratio) ==
  CASE method = "CONTAIN" -> fmax(FDiv(ratio, xratio), One)
    [] method = "COVER" -> fmin(FDiv(ratio, xratio), One)
    [] OTHER -> One

ScaleY(method, ratio, xratio) ==
  CASE method = "CONTAIN" -> fmax(FDiv(xratio, ratio), One)
    [] method = "COVER" -> fmin(FDiv(xratio, ratio), One)
    [] OTHER -> One

\* the matrix m[0..8] as the tuple m[1..9]
get_matrix(method, ratio, xratio) ==
  LET sx == ScaleX(method, ratio, xratio)
      sy == ScaleY(method, ratio, xratio)
  IN <<sx, Zero, FAdd(FMul(Fin(-1, 2), sx), Half),
       Zero, FSub(Zero, sy), FAdd(FMul(Half, sy), Half),
       Zero, Zero, One>>

(***************************************************************************)
(* init_uniforms: the scan of the fragment shader text                     *)
(***************************************************************************)
\* a text is a tuple of characters
K_uniform == <<"u", "n", "i", "f", "o", "r", "m">>

K_bool == <<"b", "o", "o", "l">>

K_int == <<"i", "n", "t">>

K_float == <<"f", "l", "o", "a", "t">>

K_ivec2 == <<"i", "v", "e", "c", "2">>

K_vec2 == <<"v", "e", "c", "2">>

K_vec3 == <<"v", "e", "c", "3">>

K_vec4 == <<"v", "e", "c", "4">>

K_true == <<"t", "r", "u", "e">>

K_false == <<"f", "a", "l", "s", "e">>

\* #define WHITE " \t"
WHITE == {" ", "\t"}

EOL == {"\r", "\n"}

\* a mutant of NameDelims: the name token is cut at white space only
NameDelims_white == WHITE

\* the delimiters of the name token, WHITE ";" (line 319)
NameDelims == WHITE \cup {";"}

\* the delimiters of the val token, WHITE ";" (line 322)
ValDelims == WHITE \cup {";"}

RECURSIVE SkipDelims(_, _)
SkipDelims(s, D) ==
  IF s # <<>> /\ Head(s) \in D THEN SkipDelims(Tail(s), D) ELSE s

RECURSIVE TokLen(_, _)
TokLen(s, D) ==
  IF s = <<>> \/ Head(s) \in D THEN 0 ELSE 1 + TokLen(Tail(s), D)

\* strtok_r on the rest of a text: the next token (ok is FALSE for NULL) and
\* the text left after the delimiter that ended it
strtok_r(s, D) ==
  LET t == SkipDelims(s, D)
      n == TokLen(t, D)
  IN IF t = <<>>
       THEN [ok |-> FALSE, tok |-> <<>>, rest |-> <<>>]
       ELSE [ok |-> TRUE, tok |-> SubSeq(t, 1, n),
             rest |-> SubSeq(t, n + 2, Len(t))]

\* streq(s1, s2): s1 && s2 && !strcmp(s1, s2), for a token and a word
streq(t, word) == t.ok /\ t.tok = word

Digits == {"0", "1", "2", "3", "4", "5", "6", "7", "8", "9"}

DigitVal(c) ==
  CASE c = "0" -> 0 [] c = "1" -> 1 [] c = "2" -> 2 [] c = "3" -> 3
    [] c = "4" -> 4 [] c = "5" -> 5 [] c = "6" -> 6 [] c = "7" -> 7
    [] c = "8" -> 8 [] OTHER -> 9

\* the leading digits of a text: how many there are and their value
RECURSIVE ScanDigits(_, _, _)
ScanDigits(s, n, v) ==
  IF s # <<>> /\ Head(s) \in Digits
    THEN ScanDigits(Tail(s), n + 1, 10 * v + DigitVal(Head(s)))
    ELSE [n |-> n, v |-> v, rest |-> s]

SignOf(s) == IF s # <<>> /\ Head(s) = "-" THEN -1 ELSE 1

PastSign(s) == IF s # <<>> /\ Head(s) \in {"+", "-"} THEN Tail(s) ELSE s

\* the conversion %d: an optional sign and at least one digit
ScanInt(s) ==
  LET d == ScanDigits(PastSign(s), 0, 0)
  IN IF d.n = 0
       THEN [ok |-> FALSE, v |-> Zero, rest |-> s]
       ELSE [ok |-> TRUE, v |-> Fin(SignOf(s) * d.v, 1), rest |-> d.rest]

\* the conversion %f on a decimal literal: an optional sign, digits, an
\* optional point and digits, with at least one digit in all
ScanFloat(s) ==
  LET i == ScanDigits(PastSign(s), 0, 0)
      point == i.rest # <<>> /\ Head(i.rest) = "."
      f == IF point THEN ScanDigits(Tail(i.rest), 0, 0)
                    ELSE [n |-> 0, v |-> 0, rest |-> i.rest]
  IN IF i.n + f.n = 0
       THEN [ok |-> FALSE, v |-> Zero, rest |-> s]
       ELSE [ok |-> TRUE,
             v |-> Fin(SignOf(s) * (i.v * (10 ^ f.n) + f.v), 10 ^ f.n),
             rest |-> f.rest]

IsPrefix(pre, s) == Len(pre) <= Len(s) /\ SubSeq(s, 1, Len(pre)) = pre

\* sscanf(val, "<type>(%f,%f,...)") with n conversions (%d when ints): the
\* values converted before the first mismatch
RECURSIVE ScanComponents(_, _, _, _)
ScanComponents(s, n, ints, got) ==
  IF n = 0 THEN got
  ELSE LET c == IF ints THEN ScanInt(s) ELSE ScanFloat(s)
       IN IF ~c.ok THEN got
          ELSE IF n > 1 /\ c.rest # <<>> /\ Head(c.rest) = ","
                 THEN ScanComponents(Tail(c.rest), n - 1, ints, Append(got, c.v))
                 ELSE Append(got, c.v)

ScanVec(val, type, n, ints) ==
  LET pre == type \o <<"(">>
  IN IF IsPrefix(pre, val)
       THEN ScanComponents(SubSeq(val, Len(pre) + 1, Len(val)), n, ints, <<>>)
       ELSE <<>>

\* glUniform*(loc, ...) on the uniform a name resolved to
SetUniform(st, name, value) == [st EXCEPT !.uniforms[name] = value]

\* av_log(ctx, AV_LOG_ERROR, ...)
LogError(st, what, name) ==
  [st EXCEPT !.log = Append(@, [what |-> what, name |-> name])]

\* lines 331-338; av_match_name(val, "true,1") taken as val being one of the
\* listed names
ApplyBool(st, name, val) ==
  IF val \in {K_true, <<"1">>} THEN SetUniform(st, name, <<One>>)
  ELSE IF val \in {K_false, <<"0">>} THEN SetUniform(st, name, <<Zero>>)
  ELSE LogError(st, "parsing bool", name)

\* lines 339-345
ApplyInt(st, name, val) ==
  LET c == ScanInt(val)
  IN IF c.ok THEN SetUniform(st, name, <<c.v>>)
             ELSE LogError(st, "parsing integer", name)

\* a mutant of ApplyFloat: a literal that does not scan is dropped silently
ApplyFloat_silent(st, name, val) ==
  LET c == ScanFloat(val)
  IN IF c.ok THEN SetUniform(st, name, <<c.v>>) ELSE st

\* lines 346-352
ApplyFloat(st, name, val) ==
  LET c == ScanFloat(val)
  IN IF c.ok THEN SetUniform(st, name, <<c.v>>)
             ELSE LogError(st, "parsing float", name)

\* lines 353-370: ivec2 and vec2 set both components to x
ApplyVec2(st, name, val, type, ints) ==
  LET two == ScanVec(val, type, 2, ints)
      one == ScanVec(val, type, 1, ints)
  IN IF Len(two) = 2 THEN SetUniform(st, name, <<two[1], two[1]>>)
     ELSE IF Len(one) = 1 THEN SetUniform(st, name, <<one[1], one[1]>>)
     ELSE LogError(st, IF ints THEN "parsing ivec2" ELSE "parsing vec2", name)

\* lines 371-388: vec3 (n = 3) and vec4 (n = 4)
ApplyVecN(st, name, val, type, n) ==
  LET all == ScanVec(val, type, n, FALSE)
      one == ScanVec(val, type, 1, FALSE)
  IN IF Len(all) = n THEN SetUniform(st, name, all)
     ELSE IF Len(one) = 1
            THEN SetUniform(st, name, [k \in 1 .. n |-> one[1]])
     ELSE LogError(st, IF n = 3 THEN "parsing vec3" ELSE "parsing vec4", name)

\* lines 317-391: one line of the text; act is the set of names that
\* glGetUniformLocation resolves
ScanLine(line, st, act) ==
  LET start == strtok_r(line, WHITE)
      type == strtok_r(start.rest, WHITE)
      name == strtok_r(type.rest, NameDelims)
      comm == strtok_r(name.rest, WHITE)
      eq == strtok_r(comm.rest, WHITE)
      val == strtok_r(eq.rest, ValDelims)
  IN IF streq(start, K_uniform) /\ val.ok
       THEN IF name.tok \notin act THEN LogError(st, "no uniform", name.tok)
            ELSE IF streq(type, K_bool) THEN ApplyBool(st, name.tok, val.tok)
            ELSE IF streq(type, K_int) THEN ApplyInt(st, name.tok, val.tok)
            ELSE IF streq(type, K_float) THEN ApplyFloat(st, name.tok, val.tok)
            ELSE IF streq(type, K_ivec2)
                   THEN ApplyVec2(st, name.tok, val.tok, K_ivec2, TRUE)
            ELSE IF streq(type, K_vec2)
                   THEN ApplyVec2(st, name.tok, val.tok, K_vec2, FALSE)
            ELSE IF streq(type, K_vec3)
                   THEN ApplyVecN(st, name.tok, val.tok, K_vec3, 3)
            ELSE IF streq(type, K_vec4)
                   THEN ApplyVecN(st, name.tok, val.tok, K_vec4, 4)
            ELSE LogError(st, "unrecognized type", name.tok)
       ELSE st

\* lines 313-393: the loop over the lines of the text
RECURSIVE ScanLines(_, _, _)
ScanLines(text, st, act) ==
  LET line == strtok_r(text, EOL)
  IN IF ~line.ok THEN st
     ELSE ScanLines(line.rest, ScanLine(line.tok, st, act), act)

U_from == <<"f", "r", "o", "m">>

U_to == <<"t", "o">>

U_progress == <<"p", "r", "o", "g", "r", "e", "s", "s">>

U_ratio == <<"r", "a", "t", "i", "o">>

U_mfrom == <<"m", "f", "r", "o", "m">>

U_mto == <<"m", "t", "o">>

\* the uniforms of the fragment shader template (lines 64-69)
TemplateUniforms == {U_from, U_to, U_progress, U_ratio, U_mfrom, U_mto}

\* lines 396-407: the uniforms init_uniforms sets last; d holds the sizes
\* of the links
SetTemplateUniforms(st, method, d) ==
  LET ratio == Fin(d.ow, d.oh)
      fromR == Fin(d.fw, d.fh)
      toR == Fin(d.tw, d.th)
      s1 == SetUniform(st, U_from, <<Zero>>)
      s2 == SetUniform(s1, U_to, <<One>>)
      s3 == SetUniform(s2, U_progress, <<Zero>>)
      s4 == SetUniform(s3, U_ratio, <<ratio>>)
      s5 == SetUniform(s4, U_mfrom, get_matrix(method, ratio, fromR))
  IN SetUniform(s5, U_mto, get_matrix(method, ratio, toR))

\* ---- the texts scanned: lines written from declarations
N_strength == <<"s", "t", "r", "e", "n", "g", "t", "h">>

N_k == <<"k">>

N_count == <<"c", "o", "u", "n", "t">>

N_flag == <<"f", "l", "a", "g">>

N_dir == <<"d", "i", "r">>

N_m == <<"m">>

K_mat2 == <<"m", "a", "t", "2">>

\* the uniforms a transition source may declare
UserUniforms == {N_strength, N_k, N_count, N_flag, N_dir, N_m}

\* a declaration: its form ("comment": uniform T n; // = v, "init":
\* uniform T n = v;, "plain": uniform T n;), type, name, literal, what the
\* literal is for the type ("ok", "bad": no value can be read from it,
\* "prefix": a value followed by junk) and the value it denotes or starts with
Decl(form, type, name, lit, class, value) ==
  [form |-> form, type |-> type, name |-> name, lit |-> lit, class |-> class,
   value |-> value]

Declarations ==
  { Decl("comment", K_float, N_strength, <<"0", ".", "5">>, "ok", <<Half>>),
    Decl("init", K_float, N_strength, <<"0", ".", "5">>, "ok", <<Half>>),
    Decl("comment", K_float, N_k, <<"a", "b", "c">>, "bad", <<>>),
    Decl("init", K_float, N_k, <<"a", "b", "c">>, "bad", <<>>),
    Decl("comment", K_float, N_k, <<"-", "1", ".", "2", "5">>, "ok", <<Fin(-5, 4)>>),
    Decl("comment", K_float, N_strength, <<"1", "x">>, "prefix", <<One>>),
    Decl("comment", K_int, N_count, <<"3">>, "ok", <<Fin(3, 1)>>),
    Decl("comment", K_bool, N_flag, <<"y", "e", "s">>, "bad", <<>>),
    Decl("comment", K_bool, N_flag, <<"t", "r", "u", "e">>, "ok", <<One>>),
    Decl("comment", K_vec2, N_dir, <<"v", "e", "c", "2", "(", "1", ",", "2", ")">>, "ok",
         <<One, Fin(2, 1)>>),
    Decl("comment", K_mat2, N_m, <<"1">>, "ok", <<One>>),
    Decl("plain", K_float, U_progress, <<>>, "ok", <<>>) }

SP == <<" ">>

\* the line of text of a declaration
LineOf(d) ==
  CASE d.form = "comment" ->
         K_uniform \o SP \o d.type \o SP \o d.name \o <<";", " ", "/", "/", " ",
           "=", " ">> \o d.lit
    [] d.form = "init" ->
         K_uniform \o SP \o d.type \o SP \o d.name \o <<" ", "=", " ">> \o d.lit
           \o <<";">>
    [] OTHER -> K_uniform \o SP \o d.type \o SP \o d.name \o <<";">>

\* the text of a sequence of declarations, one per line
RECURSIVE TextOf(_)
TextOf(ds) ==
  IF ds = <<>> THEN <<>> ELSE LineOf(Head(ds)) \o <<"\n">> \o TextOf(Tail(ds))

DeclSeqs == UNION {[1 .. n -> Declarations] : n \in 1 .. MaxLines}

\* the sizes of the output link and the two input links tried
LinkDims ==
  { [ow |-> 2, oh |-> 2, fw |-> 2, fh |-> 2, tw |-> 4, th |-> 2],
    [ow |-> 4, oh |-> 2, fw |-> 2, fh |-> 2, tw |-> 2, th |-> 4] }

UniformInit ==
  /\ decls \in DeclSeqs
  /\ f_shader_source = TextOf(decls)
  /\ resize \in ResizeTypes
  /\ dims \in LinkDims
  /\ active \in {TemplateUniforms \cup UserUniforms,
                 TemplateUniforms \cup (UserUniforms \ {N_k})}
  /\ uniforms = [n \in active |-> <<>>]
  /\ ulog = <<>>
  /\ upc = "linked"

init_uniforms ==
  /\ upc = "linked"
  /\ LET st == SetTemplateUniforms(
                 ScanLines(f_shader_source, [uniforms |-> uniforms, log |-> ulog],
                           active),
                 resize, dims)
     IN /\ uniforms' = st.uniforms
        /\ ulog' = st.log
  /\ upc' = "done"
  /\ UNCHANGED <<f_shader_source, decls, resize, dims, active>>

UniformIdle ==
  /\ f_shader_source = <<>>
  /\ decls = <<>>
  /\ resize = "CONTAIN"
  /\ dims = [ow |-> 2, oh |-> 2, fw |-> 2, fh |-> 2, tw |-> 2, th |-> 2]
  /\ active = {}
  /\ uniforms = <<>>
  /\ ulog = <<>>
  /\ upc = "idle"

ProgressIdle ==
  /\ p_in = [pts |-> 0, first_pts |-> 0, den |-> 1, offset |-> Zero,
             duration |-> One, diff |-> 0]
  /\ p_out = NoProgress

(***************************************************************************)
(* The specification of the filter                                         *)
(***************************************************************************)
Init ==
  /\ FilterInit
  /\ ProgressIdle
  /\ UniformIdle

\* the instance a filter graph with one gltransition filter runs
Solo == {"A"}

Next ==
  \E i \in Solo :
    \/ \E wi \in Sizes, hi \in Sizes, dur \in OptDurations, off \in OptOffsets :
         init(i, wi, hi, dur, off) /\ UNCHANGED <<progressVars, uniformVars>>
    \/ \E ff \in PixFmts, tf \in PixFmts, at \in FailPoints(useEGL), den \in Dens :
         config_output(i, ff, tf, at, den)
           /\ UNCHANGED <<progressVars, uniformVars>>
    \/ \E pts \in 0 .. MaxPts, ret \in {"ok", "err"},
          fpts \in {AV_NOPTS_VALUE} \cup (0 .. MaxPts),
          toPresent \in BOOLEAN, allocOk \in BOOLEAN :
         blend_frame(i, pts, ret, fpts, toPresent, allocOk)
           /\ UNCHANGED <<progressVars, uniformVars>>
    \/ uninit(i) /\ UNCHANGED <<progressVars, uniformVars>>

Spec == Init /\ [][Next]_vars

(***************************************************************************)
(* Two instances on one thread: the handlers of A and B interleave.  The   *)
(* frames and options are the plain ones; what varies is the order.        *)
(***************************************************************************)
NextShared ==
  \E i \in Instances :
    \/ init(i, 2, 2, DefaultDuration, DefaultOffset)
         /\ UNCHANGED <<progressVars, uniformVars>>
    \/ \E at \in {"link", "none"} :
         config_output(i, "rgb24", "rgb24", at, 1)
           /\ UNCHANGED <<progressVars, uniformVars>>
    \/ \E pts \in 0 .. 1, toPresent \in BOOLEAN :
         blend_frame(i, pts, "ok", pts, toPresent, TRUE)
           /\ UNCHANGED <<progressVars, uniformVars>>
    \/ uninit(i) /\ UNCHANGED <<progressVars, uniformVars>>

SpecShared == Init /\ [][NextShared]_vars

(***************************************************************************)
(* The specification of the progress computation                           *)
(***************************************************************************)
\* the filter at rest, for the specifications of its pure parts
FilterIdle == FilterInit /\ useEGL = TRUE

InitProgress ==
  /\ FilterIdle
  /\ ProgressInit
  /\ UniformIdle

NextProgress == ProgressStep /\ UNCHANGED <<filterVars, uniformVars>>

SpecProgress == InitProgress /\ [][NextProgress]_vars

(***************************************************************************)
(* The specification of the uniform default extractor                      *)
(***************************************************************************)
InitUniforms ==
  /\ FilterIdle
  /\ ProgressIdle
  /\ UniformInit

NextUniforms == init_uniforms /\ UNCHANGED <<filterVars, progressVars>>

SpecUniforms == InitUniforms /\ [][NextUniforms]_vars

(***************************************************************************)
(* Claims about blend_frame, config_output and uninit (Spec, SpecShared)   *)
(***************************************************************************)
\* an event of instance i happens in this step
EventStep(i) == fs_pts'[i] # fs_pts[i]

\* C1: first_pts is AV_NOPTS_VALUE after init; while it is unset, only an
\* event whose from frame carries a valid timestamp changes it, and to that
\* frame's pts; once it is set no step changes it.
C1_FirstPtsSetOnce ==
  [][\A i \in Instances :
       /\ (phase[i] = "new" /\ phase'[i] # "new")
            => first_pts'[i] = AV_NOPTS_VALUE
       /\ (phase[i] # "new" /\ first_pts[i] # AV_NOPTS_VALUE)
            => first_pts'[i] = first_pts[i]
       /\ (phase[i] # "new" /\ first_pts[i] = AV_NOPTS_VALUE)
            => first_pts'[i] =
                 IF EventStep(i) /\ ev'.ret = "ok" THEN ev'.from.pts
                                                    ELSE AV_NOPTS_VALUE]_vars

\* C1 witness: an event with a valid from timestamp that differs from the
\* recorded first_pts has been handled, and first_pts kept its value
C1_Witness ==
  /\ ev.inst = "A" /\ ev.ret = "ok"
  /\ first_pts["A"] # AV_NOPTS_VALUE
  /\ ev.from.pts # AV_NOPTS_VALUE
  /\ ev.from.pts # first_pts["A"]

\* C3: an event whose to frame is absent forwards the from frame it received,
\* unchanged, and does nothing of a blend: no output frame is allocated, no
\* progress is written, no GPU call (upload, draw, readback) is issued.
C3_ToAbsentForwards ==
  (ev.inst # NoInstance /\ ev.ret = "ok" /\ ev.to = NoFrame)
    => /\ ev.emitted = <<ev.from>>
       /\ ev.fromFate = "forwarded"
       /\ ev.allocs = 0
       /\ ev.progress = NoProgress
       /\ ev.calls = <<>>

\* C3 witness: after a blend has written progress 1, an event without a to
\* frame is handled
C3_Witness ==
  /\ ev.inst = "A" /\ ev.ret = "ok" /\ ev.to = NoFrame
  /\ ev.from.pts # AV_NOPTS_VALUE
  /\ u_progress["A"] = One

\* C4 as claimed: every event for which blend_frame obtained its frames emits
\* exactly one frame.
C4_OneFramePerEvent ==
  (ev.inst # NoInstance /\ ev.ret = "ok") => Len(ev.emitted) = 1

\* C4 amended: an event emits exactly one frame, the blended frame or the
\* from frame, unless ff_framesync_dualinput_get fails or the output frame
\* cannot be allocated; then it emits none and returns the error. No frame
\* stays with the instance: the from frame is forwarded, freed or (when the
\* allocation fails) dropped, the to frame is never owned.
C4_OneFrameUnlessError ==
  ev.inst # NoInstance
    => /\ Len(ev.emitted) = IF ev.result = "0" THEN 1 ELSE 0
       /\ ev.result = "ENOMEM" <=> (ev.ret = "ok" /\ ev.to # NoFrame
                                      /\ ev.fromFate = "leaked")
       /\ ev.result = "err" <=> ev.ret = "err"
       /\ \A n \in 1 .. Len(ev.emitted) :
            ev.emitted[n].buf = IF ev.to = NoFrame THEN "from" ELSE "out"
       /\ ev.fromFate \in {"forwarded", "freed", "leaked", "none"}

\* C4 witness: a blend has emitted its output frame
C4_Witness ==
  /\ ev.inst = "A" /\ ev.ret = "ok" /\ ev.to # NoFrame
  /\ Len(ev.emitted) = 1 /\ ev.emitted[1].buf = "out"

\* C6: when config_output has run with input formats that differ or with a
\* width or height of 0, it has returned EINVAL, the instance holds no
\* context, program, buffer or texture, and no event is ever handled for it.
C6_SetupRejectedEarly ==
  \A i \in Instances :
    (cfg_ret[i] # "none"
       /\ (link_format[i][1] # link_format[i][2] \/ w[i] = 0 \/ h[i] = 0))
      => /\ cfg_ret[i] = "EINVAL"
         /\ phase[i] \in {"failed", "closed"}
         /\ acquired[i] = <<>>
         /\ glctx[i] = 0 /\ program[i] = 0 /\ posBuf[i] = 0
         /\ from[i] = 0 /\ to[i] = 0
         /\ released[i] = <<>>
         /\ ~seen_event[i]

\* C6 witness: config_output has refused a height of 0 with equal formats
C6_Witness ==
  /\ cfg_ret["A"] = "EINVAL"
  /\ link_format["A"][1] = link_format["A"][2]
  /\ w["A"] > 0 /\ h["A"] = 0

\* C7: every GPU call of a handler runs while the context of the instance
\* that issues it is the current one.
C7_OwnContextCurrent ==
  \A n \in 1 .. Len(glcalls) : glcalls[n].cur = glcalls[n].inst

Reverse(seq) == [n \in 1 .. Len(seq) |-> seq[Len(seq) + 1 - n]]

\* C8 as claimed: uninit releases what config_output acquired in exactly the
\* reverse of the order of acquisition.
C8_ReverseOfAcquisition ==
  \A i \in Instances :
    phase[i] = "closed" => released[i] = Reverse(acquired[i])

\* the order in which uninit goes through the handles
TeardownOrder == <<"from", "to", "posBuf", "program", "ctx">>

\* C8 amended: uninit releases exactly the handles config_output stored, each
\* once and none that was not acquired, class by class in reverse order of
\* acquisition (textures, vertex buffer, program, context), the two textures
\* in the order from, to.
C8_TeardownByClass ==
  \A i \in Instances :
    phase[i] = "closed"
      => /\ Len(released[i]) = Len(acquired[i])
         /\ \A x \in {"from", "to", "posBuf", "program", "ctx"} :
              Has(released[i], x) <=> Has(acquired[i], x)
         /\ released[i] = SelectSeq(TeardownOrder,
                                    LAMBDA x : Has(acquired[i], x))

\* C8 witness: setup failed at the link step, with the context and the
\* program acquired, and uninit has run
C8_Witness ==
  /\ phase["A"] = "closed"
  /\ acquired["A"] = <<"ctx", "program">>
  /\ released["A"] = <<"program", "ctx">>

(***************************************************************************)
(* Claims about the progress computation (SpecProgress)                    *)
(***************************************************************************)
\* C2: the value written to the progress uniform lies in [0,1], whatever the
\* timestamps, the timebase denominator, the offset and the duration, a
\* duration of 0 included.
C2_ProgressInUnitInterval ==
  p_out # NoProgress
    => /\ p_out.k = "fin"
       /\ 0 <= p_out.n
       /\ p_out.n <= p_out.d

\* C2 witness: a blend with duration 0 at the instant the offset is reached,
\* where ts / duration is 0/0
C2_Witness ==
  /\ p_out # NoProgress
  /\ p_in.duration = Zero
  /\ p_in.first_pts # AV_NOPTS_VALUE
  /\ p_in.diff * p_in.offset.d = p_in.offset.n * p_in.den

\* the claimed value clamp(((pts - first_pts) / den - offset) / duration, 0, 1)
\* for a duration above 0, in exact arithmetic
ClaimedProgress(in) ==
  LET num == ((in.pts - in.first_pts) * in.offset.d - in.offset.n * in.den)
               * in.duration.d
      den == in.den * in.offset.d * in.duration.n
  IN IF num <= 0 THEN Zero ELSE IF num >= den THEN One ELSE Fin(num, den)

\* elapsed time (pts - first_pts) / den does not exceed the offset
NotPastOffset(in) ==
  (in.pts - in.first_pts) * in.offset.d <= in.offset.n * in.den

\* the claim's example: duration 2 s, offset 0, first_pts 0, denominator 1
IsExample(in) ==
  /\ in.duration = Fin(2, 1) /\ in.offset = Zero
  /\ in.first_pts = 0 /\ in.den = 1

ExampleProgress(pts) ==
  CASE pts = 0 -> Zero
    [] pts = 1 -> Fin(1, 2)
    [] OTHER -> One

\* C5 as claimed: progress is the clamped quotient, the example gives 0, 1/2,
\* 1, 1, and with a non-zero offset progress is 0 as long as the elapsed time
\* does not exceed the offset.
C5_ProgressAsClaimed ==
  (p_out # NoProgress /\ p_in.first_pts # AV_NOPTS_VALUE)
    => /\ p_in.duration # Zero => p_out = ClaimedProgress(p_in)
       /\ IsExample(p_in) => p_out = ExampleProgress(p_in.pts)
       /\ (p_in.offset # Zero /\ NotPastOffset(p_in)) => p_out = Zero

\* C5 amended: for a duration above 0 progress is the clamped quotient, the
\* example gives 0, 1/2, 1, 1, and with a non-zero offset progress is 0 as
\* long as the elapsed time does not exceed the offset; for a duration of 0
\* progress is 0 while the elapsed time is below the offset and 1 from the
\* instant it reaches the offset.
C5_ProgressFormula ==
  (p_out # NoProgress /\ p_in.first_pts # AV_NOPTS_VALUE)
    => /\ p_in.duration # Zero => p_out = ClaimedProgress(p_in)
       /\ IsExample(p_in) => p_out = ExampleProgress(p_in.pts)
       /\ (p_in.duration # Zero /\ p_in.offset # Zero /\ NotPastOffset(p_in))
            => p_out = Zero
       /\ p_in.duration = Zero
            => p_out = IF (p_in.pts - p_in.first_pts) * p_in.offset.d
                            < p_in.offset.n * p_in.den
                         THEN Zero ELSE One

\* C5 witness: the example at pts 1, where progress is 1/2
C5_Witness ==
  /\ IsExample(p_in) /\ p_in.pts = 1
  /\ p_out = Fin(1, 2)

(***************************************************************************)
(* Claims about init_uniforms (SpecUniforms)                               *)
(***************************************************************************)
\* the types init_uniforms has a branch for
KnownTypes == {K_bool, K_int, K_float, K_ivec2, K_vec2, K_vec3, K_vec4}

\* a declaration from which a default is read and applied
Sets(d) ==
  /\ d.form = "comment" /\ d.name \in active
  /\ d.type \in KnownTypes /\ d.class \in {"ok", "prefix"}

\* a declaration for which an error is logged
Logs(d) ==
  /\ d.form = "comment"
  /\ d.name \notin active \/ d.type \notin KnownTypes \/ d.class = "bad"

\* a later line sets the uniform of line n again
LaterSets(n) ==
  \E m \in (n + 1) .. Len(decls) : decls[m].name = decls[n].name /\ Sets(decls[m])

\* no line sets the uniform of line n
NeverSet(n) ==
  \A m \in 1 .. Len(decls) : decls[m].name = decls[n].name => ~Sets(decls[m])

\* C9 as claimed: after init_uniforms a line uniform float <name> = <v>; whose
\* name resolves leaves the uniform at v.
C9_InitFormApplied ==
  upc = "done"
    => \A n \in 1 .. Len(decls) :
         (decls[n].form = "init" /\ decls[n].type = K_float
            /\ decls[n].class = "ok" /\ decls[n].name \in active
            /\ ~LaterSets(n))
           => uniforms[decls[n].name] = decls[n].value

\* C9 amended: after init_uniforms a line uniform float <name>; // = <v>
\* whose name resolves leaves the uniform at v (the six tokens are uniform,
\* float, <name>, //, =, <v>); a line uniform float <name> = <v>; has no
\* sixth token and sets nothing.
C9_CommentFormApplied ==
  upc = "done"
    => \A n \in 1 .. Len(decls) :
         /\ (decls[n].form = "comment" /\ decls[n].type = K_float
               /\ decls[n].class = "ok" /\ decls[n].name \in active
               /\ ~LaterSets(n))
              => uniforms[decls[n].name] = decls[n].value
         /\ (decls[n].form = "init" /\ decls[n].name \in active /\ NeverSet(n))
              => uniforms[decls[n].name] = <<>>

\* C9 witness: the text is the one line uniform float strength; // = 0.5 and
\* the uniform strength is 0.5
C9_Witness ==
  /\ upc = "done"
  /\ Len(decls) = 1
  /\ decls[1].form = "comment" /\ decls[1].name = N_strength
  /\ decls[1].class = "ok"
  /\ uniforms[N_strength] = <<Half>>

HasLog(name) == \E n \in 1 .. Len(ulog) : ulog[n].name = name

\* C10 as claimed: a declaration whose literal cannot be read for its type,
\* in either form, changes nothing of its uniform and an error is logged for
\* it.
C10_MalformedLoggedAsClaimed ==
  upc = "done"
    => \A n \in 1 .. Len(decls) :
         (decls[n].class = "bad" /\ decls[n].name \in active
            /\ decls[n].type \in KnownTypes)
           => /\ HasLog(decls[n].name)
              /\ NeverSet(n) => uniforms[decls[n].name] = <<>>

\* the errors logged for a sequence of declarations, in order
RECURSIVE ExpectedLogNames(_)
ExpectedLogNames(ds) ==
  IF ds = <<>> THEN <<>>
  ELSE (IF Logs(Head(ds)) THEN <<Head(ds).name>> ELSE <<>>)
         \o ExpectedLogNames(Tail(ds))

\* C10 amended: a declaration uniform <type> <name>; // = <literal> whose
\* literal gives no value for its type (abc for float, yes for bool) changes
\* nothing of its uniform and has an error logged, and the lines after it
\* are still applied; errors are logged for exactly the comment-form
\* declarations with an unknown name, an unknown type or such a literal. A
\* literal that starts with a value (1x) is applied by that value without an
\* error, and a line uniform <type> <name> = <literal>; is skipped without
\* an error.
C10_MalformedSkipped ==
  upc = "done"
    => /\ \A n \in 1 .. Len(decls) :
            /\ (decls[n].form = "comment" /\ decls[n].class = "bad"
                  /\ decls[n].name \in active /\ decls[n].type \in KnownTypes)
                 => /\ HasLog(decls[n].name)
                    /\ NeverSet(n) => uniforms[decls[n].name] = <<>>
            /\ (Sets(decls[n]) /\ ~LaterSets(n)
                  /\ decls[n].type \in {K_float, K_int, K_bool})
                 => uniforms[decls[n].name] = decls[n].value
       /\ [n \in 1 .. Len(ulog) |-> ulog[n].name] = ExpectedLogNames(decls)

\* C10 witness: uniform float k; // = abc is followed by
\* uniform float strength; // = 0.5: one error is logged, k is untouched and
\* strength is 0.5
C10_Witness ==
  /\ upc = "done"
  /\ Len(decls) = 2
  /\ decls[1].form = "comment" /\ decls[1].name = N_k /\ decls[1].class = "bad"
  /\ N_k \in active
  /\ decls[2].form = "comment" /\ decls[2].name = N_strength
  /\ decls[2].class = "ok"
  /\ Len(ulog) = 1 /\ ulog[1].name = N_k /\ ulog[1].what = "parsing float"
  /\ uniforms[N_k] = <<>>
  /\ uniforms[N_strength] = <<Half>>

(***************************************************************************)
(* Claims about get_matrix (SpecUniforms)                                  *)
(***************************************************************************)
\* the two matrices init_uniforms uploads
Matrices == {uniforms[U_mfrom], uniforms[U_mto]}

\* the ratios get_matrix was called with differ for one of the inputs
RatiosDiffer ==
  \/ Fin(dims.ow, dims.oh) # Fin(dims.fw, dims.fh)
  \/ Fin(dims.ow, dims.oh) # Fin(dims.tw, dims.th)

\* C11 as claimed: for STRETCH the matrix of each input has the scale
\* sx = sy = 1 (m[0] = 1, m[4] = -sy = -1) and zero translation (m[2] = 0 and
\* m[5] = 0), whatever the ratios.
C11_StretchZeroTranslation ==
  (upc = "done" /\ resize = "STRETCH")
    => \A m \in Matrices :
         /\ m[1] = One /\ m[5] = Fin(-1, 1)
         /\ m[3] = Zero /\ m[6] = Zero

\* C11 amended: for STRETCH the matrix of each input is, whatever the ratios,
\* m[0] = 1, m[2] = 0, m[4] = -1, m[5] = 1, m[8] = 1 and zero elsewhere: the
\* scale is sx = sy = 1, the x translation is 0, and the y axis is flipped
\* with the y translation 0.5 * sy + 0.5 = 1 (uv.y maps to 1 - uv.y).
C11_StretchFlipOnly ==
  (upc = "done" /\ resize = "STRETCH")
    => Matrices = {<<One, Zero, Zero, Zero, Fin(-1, 1), One, Zero, Zero, One>>}

\* C11 witness: init_uniforms has run with STRETCH on links whose ratios
\* differ (output 4x2, to input 2x4) and the matrix mto has m[5] = 1
C11_Witness ==
  /\ upc = "done"
  /\ resize = "STRETCH"
  /\ RatiosDiffer
  /\ dims.ow = 4 /\ dims.th = 4
  /\ uniforms[U_mto][1] = One
  /\ uniforms[U_mto][6] = One

(***************************************************************************)
(* Claims about the frames and the timeline of blend_frame (Spec)          *)
(***************************************************************************)
\* the last event got its frames from ff_framesync_dualinput_get
GotFrames == ev.inst # NoInstance /\ ev.ret = "ok"

\* C12: the from frame of every event is disposed of exactly once, either
\* forwarded downstream (to frame absent) or freed by apply_transition after
\* the blend, also when the output frame cannot be allocated; it is never
\* leaked.
C12_FromDisposedOnce ==
  GotFrames
    => /\ ev.fromFate \in {"forwarded", "freed"}
       /\ ev.fromFate = "forwarded" <=> ev.emitted = <<ev.from>>
       /\ ev.fromFate = "freed" => ev.from \notin {ev.emitted[n] : n \in 1 .. Len(ev.emitted)}

\* C13: whenever apply_transition has computed progress for an event,
\* first_pts of the instance holds a timestamp and not AV_NOPTS_VALUE, also
\* when from frames carry no valid timestamp.
C13_NoBlendWhilePriming ==
  (GotFrames /\ ev.progress # NoProgress)
    => first_pts[ev.inst] # AV_NOPTS_VALUE

====
